---------------------------- MODULE Spec2Model ----------------------------
(***************************************************************************)
(* A model of the receipt analyzer (src/app.py): the receipt text parser   *)
(* parse_receipt_text, the storage operations on the receipts and items    *)
(* tables, and the rule-based query interpreter answer_query.              *)
(*                                                                         *)
(* Text is modelled as a sequence of one-character strings, so that the    *)
(* regular expressions, split, strip, lower and title of the source are    *)
(* computed character by character.  An optional value (Python None) is    *)
(* the empty tuple None; a present value v is Some(v) = <<v>>.             *)
(***************************************************************************)
EXTENDS Integers, Sequences, FiniteSets, TLC

VARIABLES
    text,            \* parse_receipt_text: the raw OCR text handed to it
    parsed,          \* parse_receipt_text: the record it returned
    question,        \* answer_query: the question asked of a stored database
    receipts,        \* table receipts, rows in rowid order
    items,           \* table items, rows in rowid order
    nextReceiptId,   \* AUTOINCREMENT counter of receipts
    nextItemId,      \* AUTOINCREMENT counter of items
    refReceipts,     \* reference run: the same history without the other owners
    refItems,
    refNextReceiptId,
    refNextItemId,
    idmap,           \* receipt id of the observed owner -> its id in the reference run
    now,             \* datetime.now(): <<year, month>>
    res,             \* what the last operation returned to its caller
    refRes           \* what the same operation returned in the reference run

vars == <<text, parsed, question, receipts, items, nextReceiptId, nextItemId,
          refReceipts, refItems, refNextReceiptId, refNextItemId, idmap,
          now, res, refRes>>

None == <<>>
Some(v) == <<v>>

-----------------------------------------------------------------------------
(* Characters and the string methods of Python used by the source.         *)

Digits == <<"0","1","2","3","4","5","6","7","8","9">>
UpperLetters == <<"A","B","C","D","E","F","G","H","I","J","K","L","M","N","O","P","Q","R","S","T","U","V","W","X","Y","Z">>
LowerLetters == <<"a","b","c","d","e","f","g","h","i","j","k","l","m","n","o","p","q","r","s","t","u","v","w","x","y","z">>

Range(s) == {s[i] : i \in 1..Len(s)}
DigitSet == Range(Digits)
UpperSet == Range(UpperLetters)
LowerSet == Range(LowerLetters)
\* \s of re and the characters str.strip() and str.split() treat as blank
WS == {" ", "\t", "\n"}

IndexIn(s, c) == CHOOSE i \in 1..Len(s) : s[i] = c
DigitVal(c) == IndexIn(Digits, c) - 1
LowerChar(c) == IF c \in UpperSet THEN LowerLetters[IndexIn(UpperLetters, c)] ELSE c
UpperChar(c) == IF c \in LowerSet THEN UpperLetters[IndexIn(LowerLetters, c)] ELSE c

\* str.lower()
Lower(s) == [i \in 1..Len(s) |-> LowerChar(s[i])]

\* str.title(): a letter is upper-cased after a non-letter, lower-cased after a letter
Title(s) ==
    [i \in 1..Len(s) |->
        IF i > 1 /\ s[i-1] \in (UpperSet \cup LowerSet)
        THEN LowerChar(s[i]) ELSE UpperChar(s[i])]

\* the position after the longest run of characters of class C that starts at j
RunEnd(s, j, C) ==
    CHOOSE k \in j..(Len(s) + 1) :
        /\ \A m \in j..(k - 1) : s[m] \in C
        /\ (k = Len(s) + 1 \/ s[k] \notin C)

\* the position of the last character of the longest run of class C ending at j
RunStart(s, j, C) ==
    CHOOSE k \in 0..j :
        /\ \A m \in (k + 1)..j : s[m] \in C
        /\ (k = 0 \/ s[k] \notin C)

\* str.strip()
Strip(s) ==
    LET a == RunEnd(s, 1, WS)
        b == RunStart(s, Len(s), WS)
    IN  IF a > b THEN <<>> ELSE SubSeq(s, a, b)

OccursAt(s, i, w) == i >= 1 /\ i + Len(w) - 1 <= Len(s) /\ SubSeq(s, i, i + Len(w) - 1) = w

\* w in s
Contains(s, w) == \E i \in 1..(Len(s) - Len(w) + 1) : OccursAt(s, i, w)

FirstOcc(s, w) == CHOOSE i \in 1..(Len(s) - Len(w) + 1) :
                    OccursAt(s, i, w) /\ \A j \in 1..(i - 1) : ~OccursAt(s, j, w)

\* s.split(w): the pieces between the occurrences of w, found left to right
RECURSIVE Split(_, _)
Split(s, w) ==
    IF ~Contains(s, w) THEN <<s>>
    ELSE LET i == FirstOcc(s, w)
         IN  <<SubSeq(s, 1, i - 1)>> \o Split(SubSeq(s, i + Len(w), Len(s)), w)

\* s.split(): the maximal runs of non-blank characters
RECURSIVE Tokens(_)
Tokens(s) ==
    LET a == RunEnd(s, 1, WS)
    IN  IF a > Len(s) THEN <<>>
        ELSE LET b == CHOOSE k \in a..Len(s) :
                        /\ \A m \in a..k : s[m] \notin WS
                        /\ (k = Len(s) \/ s[k + 1] \in WS)
             IN  <<SubSeq(s, a, b)>> \o Tokens(SubSeq(s, b + 1, Len(s)))

RECURSIVE Join(_, _)
Join(ss, sep) ==
    IF ss = <<>> THEN <<>>
    ELSE IF Len(ss) = 1 THEN ss[1]
    ELSE ss[1] \o sep \o Join(Tail(ss), sep)

\* the text as one string
RECURSIVE StrOf(_)
StrOf(s) == IF s = <<>> THEN "" ELSE Head(s) \o StrOf(Tail(s))

-----------------------------------------------------------------------------
(* parse_receipt_text                                                      *)

kwTotal == <<"t","o","t","a","l">>
kwAmountDue == <<"a","m","o","u","n","t"," ","d","u","e">>
kwAmount == <<"a","m","o","u","n","t">>

\* re.search(r'\d{2,4}[\-/]\d{1,2}[\-/]\d{1,4}', l): the matches <<i, a, b, c>>
DigitsAt(s, i, n) == i + n - 1 <= Len(s) /\ \A k \in i..(i + n - 1) : s[k] \in DigitSet
SepAt(s, i) == i <= Len(s) /\ s[i] \in {"-", "/"}
DateAt(s, i, a, b, c) ==
    /\ DigitsAt(s, i, a) /\ SepAt(s, i + a)
    /\ DigitsAt(s, i + a + 1, b) /\ SepAt(s, i + a + b + 1)
    /\ DigitsAt(s, i + a + b + 2, c)
DateMatches(s) ==
    {t \in (1..Len(s)) \X (2..4) \X (1..2) \X (1..4) : DateAt(s, t[1], t[2], t[3], t[4])}
\* leftmost start, then each quantifier greedy in turn
Prefer(t, u) ==
    \/ t[1] < u[1]
    \/ t[1] = u[1] /\ t[2] > u[2]
    \/ t[1] = u[1] /\ t[2] = u[2] /\ t[3] > u[3]
    \/ t[1] = u[1] /\ t[2] = u[2] /\ t[3] = u[3] /\ t[4] >= u[4]
HasDate(l) == DateMatches(l) # {}
\* m.group(1) of the date search
DateGroup(l) ==
    LET M == DateMatches(l)
        t == CHOOSE x \in M : \A u \in M : Prefer(x, u)
    IN  SubSeq(l, t[1], t[1] + t[2] + t[3] + t[4] + 1)

\* re.search(r'(total|amount due|amount)', l, re.IGNORECASE)
HasKeyword(l) == Contains(Lower(l), kwTotal) \/ Contains(Lower(l), kwAmountDue)
                    \/ Contains(Lower(l), kwAmount)

\* \s*[:\-]?\s*\$?([\d,.]+) from position j: the numeric run, <<>> when it fails
NumClass == DigitSet \cup {",", "."}
NumRunAfter(s, j) ==
    LET a == RunEnd(s, j, WS)
        b == IF a <= Len(s) /\ s[a] \in {":", "-"} THEN a + 1 ELSE a
        c == RunEnd(s, b, WS)
        d == IF c <= Len(s) /\ s[c] = "$" THEN c + 1 ELSE c
        e == RunEnd(s, d, NumClass)
    IN  SubSeq(s, d, e - 1)

\* the total regex tried at position i: the alternatives in their order
TotalAt(l, i) ==
    LET low == Lower(l)
        try(kw) == IF OccursAt(low, i, kw) THEN NumRunAfter(l, i + Len(kw)) ELSE <<>>
    IN  IF try(kwTotal) # <<>> THEN try(kwTotal)
        ELSE IF try(kwAmountDue) # <<>> THEN try(kwAmountDue)
        ELSE try(kwAmount)
TotalMatches(l) == \E i \in 1..Len(l) : TotalAt(l, i) # <<>>
\* m.group(2) of re.search(total_regex, l, re.IGNORECASE)
TotalGroup(l) ==
    TotalAt(l, CHOOSE i \in 1..Len(l) :
                 TotalAt(l, i) # <<>> /\ \A j \in 1..(i - 1) : TotalAt(l, j) = <<>>)

\* re.search(r'\$([\d,.]+)', l)
DollarAt(l, i) == IF l[i] = "$" THEN SubSeq(l, i + 1, RunEnd(l, i + 1, NumClass) - 1) ELSE <<>>
DollarMatches(l) == \E i \in 1..Len(l) : DollarAt(l, i) # <<>>
DollarGroup(l) ==
    DollarAt(l, CHOOSE i \in 1..Len(l) :
                  DollarAt(l, i) # <<>> /\ \A j \in 1..(i - 1) : DollarAt(l, j) = <<>>)

RECURSIVE NatOf(_)
\* the number a run of digits denotes
NatOf(ds) == IF ds = <<>> THEN 0 ELSE 10 * NatOf(SubSeq(ds, 1, Len(ds) - 1)) + DigitVal(ds[Len(ds)])


RECURSIVE Normal(_)
\* a decimal <<mantissa, number of fractional digits>> without trailing zeros
Normal(d) == IF d[2] > 0 /\ d[1] % 10 = 0 THEN Normal(<<d[1] \div 10, d[2] - 1>>) ELSE d

\* float(s): None when float raises ValueError, else Some(decimal value)
FloatOf(s) ==
    LET dots == {i \in 1..Len(s) : s[i] = "."}
        ok   == /\ \A i \in 1..Len(s) : s[i] \in DigitSet \cup {"."}
                /\ Cardinality(dots) <= 1
                /\ \E i \in 1..Len(s) : s[i] \in DigitSet
        p    == IF dots = {} THEN Len(s) + 1 ELSE CHOOSE i \in dots : TRUE
        int  == SubSeq(s, 1, p - 1)
        frac == SubSeq(s, p + 1, Len(s))
    IN  IF ~ok THEN None
        ELSE Some(Normal(<<NatOf(int \o frac), Len(frac)>>))

\* s.replace(',', '')
StripCommas(s) == SelectSeq(s, LAMBDA c : c # ",")

IsZero(total) == total # None /\ total[1][1] = 0
\* Python truth of an optional number: None and 0.0 are false
Truthy(total) == total # None /\ ~IsZero(total)

\* re.match(r'([A-Za-z0-9\s\-]+?)\s+\$?([\d]+\.[\d]{2})', l): the name lengths k that match
NameClass == UpperSet \cup LowerSet \cup DigitSet \cup WS \cup {"-"}
PriceRunAfter(l, j) ==
    LET a == RunEnd(l, j, WS)
        b == IF a <= Len(l) /\ l[a] = "$" THEN a + 1 ELSE a
        c == RunEnd(l, b, DigitSet)
    IN  IF a > j /\ c > b /\ c <= Len(l) /\ l[c] = "." /\ DigitsAt(l, c + 1, 2)
        THEN SubSeq(l, b, c + 2) ELSE <<>>
PriceAt(l, k) == IF \A m \in 1..k : l[m] \in NameClass THEN PriceRunAfter(l, k + 1) ELSE <<>>
PriceMatches(l) == \E k \in 1..Len(l) : PriceAt(l, k) # <<>>
\* the non-greedy name takes the shortest k
PriceK(l) == CHOOSE k \in 1..Len(l) : PriceAt(l, k) # <<>> /\ \A j \in 1..(k - 1) : PriceAt(l, j) = <<>>

\* datetime.strptime(l, '%Y-%m-%d') succeeds
LeapYear(y) == (y % 4 = 0 /\ y % 100 # 0) \/ y % 400 = 0
DaysIn(y, m) == IF m = 2 THEN (IF LeapYear(y) THEN 29 ELSE 28)
                ELSE IF m \in {4, 6, 9, 11} THEN 30 ELSE 31
StrptimeYmd(l) ==
    \E b \in 1..2, c \in 1..2 :
        /\ Len(l) = 4 + 1 + b + 1 + c
        /\ DigitsAt(l, 1, 4) /\ l[5] = "-" /\ l[6 + b] = "-"
        /\ DigitsAt(l, 6, b)
        /\ \/ DigitsAt(l, 7 + b, c)
           \/ c = 2 /\ l[7 + b] = " " /\ DigitsAt(l, 8 + b, 1)
        /\ LET y == NatOf(SubSeq(l, 1, 4))
               m == NatOf(SubSeq(l, 6, 5 + b))
               d == NatOf(SelectSeq(SubSeq(l, 7 + b, Len(l)), LAMBDA ch : ch # " "))
           IN  y >= 1 /\ m \in 1..12 /\ d \in 1..DaysIn(y, m)

Unknown == <<"U","n","k","n","o","w","n">>

\* [l.strip() for l in text.split('\n') if l.strip()]
LinesKeepBlank(t) ==
    LET raw == Split(t, <<"\n">>)
    IN  [i \in 1..Len(raw) |-> Strip(raw[i])]
Lines(t) ==
    LET raw == Split(t, <<"\n">>)
    IN  SelectSeq([i \in 1..Len(raw) |-> Strip(raw[i])], LAMBDA l : l # <<>>)

\* the first index, and the last index, of ls at which P holds; 0 when there is none
FirstIdx(ls, P(_)) ==
    IF \E i \in 1..Len(ls) : P(ls[i])
    THEN CHOOSE i \in 1..Len(ls) : P(ls[i]) /\ \A j \in 1..(i - 1) : ~P(ls[j])
    ELSE 0
LastIdx(ls, P(_)) ==
    IF \E i \in 1..Len(ls) : P(ls[i])
    THEN CHOOSE i \in 1..Len(ls) : P(ls[i]) /\ \A j \in (i + 1)..Len(ls) : ~P(ls[j])
    ELSE 0

\* the loop of lines 80-83
StoreOf(ls) ==
    LET i == FirstIdx(ls, LAMBDA l : ~HasDate(l) /\ ~HasKeyword(l))
    IN  IF i = 0 THEN Unknown ELSE ls[i]

\* the loop of lines 85-89
DateOf(ls) ==
    LET i == FirstIdx(ls, HasDate)
    IN  IF i = 0 THEN None ELSE Some(DateGroup(ls[i]))

\* the loop of lines 91-98
KeywordTotalOf(ls) ==
    LET i == LastIdx(ls, TotalMatches)
    IN  IF i = 0 THEN None ELSE FloatOf(StripCommas(TotalGroup(ls[i])))

\* the body of the loop of lines 100-111 for one line: the items it appends
ItemsOfLineNoSkip(l) ==
    IF PriceMatches(l)
    THEN LET k     == PriceK(l)
             name  == Strip(SubSeq(l, 1, k))
             price == FloatOf(PriceAt(l, k))
         IN  IF name # <<>> /\ price # None
             THEN <<[name |-> name, price |-> price]>> ELSE <<>>
    ELSE <<>>
ItemsOfLine(l) ==
    IF HasKeyword(l) THEN <<>>
    ELSE IF PriceMatches(l)
    THEN LET k     == PriceK(l)
             name  == Strip(SubSeq(l, 1, k))
             price == FloatOf(PriceAt(l, k))
         IN  IF name # <<>> /\ price # None
             THEN <<[name |-> name, price |-> price]>> ELSE <<>>
    ELSE <<>>

RECURSIVE ItemsOf(_)
ItemsOf(ls) == IF ls = <<>> THEN <<>> ELSE ItemsOfLine(Head(ls)) \o ItemsOf(Tail(ls))

\* lines 112-119
DateFallback(ls) ==
    LET i == FirstIdx(ls, StrptimeYmd)
    IN  IF i = 0 THEN None ELSE Some(ls[i])

\* lines 120-128
DollarFallback(ls) ==
    LET i == LastIdx(ls, DollarMatches)
    IN  IF i = 0 THEN None ELSE FloatOf(StripCommas(DollarGroup(ls[i])))

parse_receipt_text(t) ==
    LET ls     == Lines(t)
        date0  == DateOf(ls)
        total0 == KeywordTotalOf(ls)
    IN  [store |-> StoreOf(ls),
         date  |-> IF date0 = None THEN DateFallback(ls) ELSE date0,
         total |-> IF ~Truthy(total0) THEN
                       (IF LastIdx(ls, DollarMatches) = 0 THEN total0 ELSE DollarFallback(ls))
                   ELSE total0,
         items |-> ItemsOf(ls)]

-----------------------------------------------------------------------------
(* The texts given to parse_receipt_text: up to MaxLines raw lines.        *)

MaxLines == 3

RawLines == <<
    <<"C","o","r","n","e","r"," ","S","t","o","r","e">>,
    <<"2","0","2","3","-","0","5","-","0","1">>,
    <<"M","i","l","k"," ","3",".","5","0">>,
    <<" ","B","r","e","a","d"," "," ","$","2",".","0","0"," ">>,
    <<"T","o","t","a","l",":"," ","$","5",".","5","0">>,
    <<"T","O","T","A","L"," ","1",",","2","3","4",".","5">>,
    <<"A","m","o","u","n","t"," ","0",".","0","0">>,
    <<"C","a","s","h"," ","$","2","0",".","0","0">>,
    <<"t","o","t","a","l"," ","1",".","2",".","3">>,
    <<" "," ">> >>

SeqsUpTo(S, n) == UNION {[1..k -> S] : k \in 0..n}

Texts == {Join([i \in 1..Len(c) |-> RawLines[c[i]]], <<"\n">>) :
            c \in SeqsUpTo(1..Len(RawLines), MaxLines)}

-----------------------------------------------------------------------------
(* The storage operations.  A table is the sequence of its rows in rowid   *)
(* order; amounts (REAL columns) are counted in cents.  The image column   *)
(* is written by insert_receipt and read by nothing, and is left out.      *)

Users == {"u1", "u2"}

\* c.execute('INSERT INTO receipts ...'); receipt_id = c.lastrowid; one INSERT per item
InsertReceiptRow(R, rid, u, store, date, total) ==
    Append(R, [id |-> rid, user_id |-> u, store |-> store, date |-> date, total |-> total])
InsertItemRows(I, iid, u, rid, its) ==
    I \o [k \in 1..Len(its) |->
            [id |-> iid + k - 1, user_id |-> u, receipt_id |-> rid,
             name |-> its[k].name, price |-> its[k].price]]

\* DELETE FROM items WHERE user_id=? AND receipt_id=?
DeleteItems(I, u, rid) == SelectSeq(I, LAMBDA r : ~(r.user_id = u /\ r.receipt_id = rid))
\* DELETE FROM receipts WHERE user_id=? AND id=?
DeleteReceiptsAnyOwner(R, u, rid) == SelectSeq(R, LAMBDA r : ~(r.id = rid))
DeleteReceipts(R, u, rid) == SelectSeq(R, LAMBDA r : ~(r.user_id = u /\ r.id = rid))

\* BINARY collation of TEXT: byte by byte; the characters a stored date can hold
CharOrder == <<" ", "-", "/">> \o Digits
RECURSIVE LessText(_, _)
LessText(a, b) ==
    IF b = <<>> THEN FALSE
    ELSE IF a = <<>> THEN TRUE
    ELSE IF a[1] = b[1] THEN LessText(Tail(a), Tail(b))
    ELSE IndexIn(CharOrder, a[1]) < IndexIn(CharOrder, b[1])
\* NULL sorts below every TEXT
LessDate(d, e) == IF e = None THEN FALSE ELSE IF d = None THEN TRUE ELSE LessText(d[1], e[1])

\* ORDER BY date DESC.  SQLite leaves the order of rows with equal dates open:
\* tie = FALSE lists them in rowid order, tie = TRUE in reverse rowid order.
ComesBefore(r, s, tie) ==
    \/ LessDate(s.date, r.date)
    \/ r.date = s.date /\ (IF tie THEN r.id > s.id ELSE r.id < s.id)
RECURSIVE OrderByDateDesc(_, _)
OrderByDateDesc(rows, tie) ==
    IF rows = <<>> THEN <<>>
    ELSE LET i == CHOOSE i \in 1..Len(rows) :
                    \A j \in 1..Len(rows) : j = i \/ ComesBefore(rows[i], rows[j], tie)
         IN  <<rows[i]>> \o OrderByDateDesc(SubSeq(rows, 1, i - 1) \o SubSeq(rows, i + 1, Len(rows)), tie)

\* SELECT id, store, date, total FROM receipts WHERE user_id=? ORDER BY date DESC
get_receipts(R, u, tie) ==
    LET rows == OrderByDateDesc(SelectSeq(R, LAMBDA r : r.user_id = u), tie)
    IN  [k \in 1..Len(rows) |-> <<rows[k].id, rows[k].store, rows[k].date, rows[k].total>>]

\* SELECT name, price FROM items WHERE user_id=? AND receipt_id=?
ItemsFor(I, u, rid) == SelectSeq(I, LAMBDA r : r.user_id = u /\ r.receipt_id = rid)
get_items_for_receipt(I, u, rid) ==
    LET rows == ItemsFor(I, u, rid)
    IN  [k \in 1..Len(rows) |-> <<rows[k].name, rows[k].price>>]

-----------------------------------------------------------------------------
(* answer_query.  An answer is the sequence of the pieces of text the      *)
(* f-strings and joins put together; the answer string is their            *)
(* concatenation.  exc names the exception answer_query raised, "" when it *)
(* returned; rule is the branch of the if/elif chain that ran, frag the    *)
(* vendor or item fragment it filtered by.                                 *)

qThisMonth == <<"t","h","i","s"," ","m","o","n","t","h">>
qCurrentMonth == <<"c","u","r","r","e","n","t"," ","m","o","n","t","h">>
qFrom == <<"f","r","o","m">>
qAt == <<"a","t">>
qLastReceipt == <<"l","a","s","t"," ","r","e","c","e","i","p","t">>
qLatestReceipt == <<"l","a","t","e","s","t"," ","r","e","c","e","i","p","t">>
qWhatDidIBuyAt == <<"w","h","a","t"," ","d","i","d"," ","i"," ","b","u","y"," ","a","t">>
qHowMuchDidISpendOn == <<"h","o","w"," ","m","u","c","h"," ","d","i","d"," ","i"," ","s","p","e","n","d"," ","o","n">>
qListAllItems == <<"l","i","s","t"," ","a","l","l"," ","i","t","e","m","s">>
qShowAllItems == <<"s","h","o","w"," ","a","l","l"," ","i","t","e","m","s">>
qGrocer == <<"g","r","o","c","e","r">>
qSupermarket == <<"s","u","p","e","r","m","a","r","k","e","t">>
qFood == <<"f","o","o","d">>
qGroc == <<"g","r","o","c">>
qTotal == <<"t","o","t","a","l">>
qAll == <<"a","l","l">>
qEverything == <<"e","v","e","r","y","t","h","i","n","g">>
qList == <<"l","i","s","t">>
qShow == <<"s","h","o","w">>
MonthNames == << <<"j","a","n","u","a","r","y">>, <<"f","e","b","r","u","a","r","y">>, <<"m","a","r","c","h">>, <<"a","p","r","i","l">>, <<"m","a","y">>, <<"j","u","n","e">>,
                 <<"j","u","l","y">>, <<"a","u","g","u","s","t">>, <<"s","e","p","t","e","m","b","e","r">>, <<"o","c","t","o","b","e","r">>, <<"n","o","v","e","m","b","e","r">>, <<"d","e","c","e","m","b","e","r">> >>

\* store LIKE '%f%': a case-insensitive substring test (f holds no % and no _)
Like(value, f) == Contains(Lower(value), Lower(f))

\* f"{x:.2f}" after a "$", for an amount of x cents
Money(x) ==
    "$" \o ToString(x \div 100) \o "." \o ToString((x % 100) \div 10) \o ToString(x % 10)

\* f"{d}" for a date column
DateStr(d) == IF d = None THEN "None" ELSE StrOf(d[1])

\* the decimal digits of n, zero-padded to width w
RECURSIVE Padded(_, _)
Padded(n, w) == IF w = 0 THEN <<>> ELSE Padded(n \div 10, w - 1) \o <<Digits[(n % 10) + 1]>>

\* SUM(x): NULL when no row has a value
RECURSIVE SumOpt(_)
SumOpt(xs) ==
    IF xs = <<>> THEN None
    ELSE LET rest == SumOpt(Tail(xs))
         IN  IF Head(xs) = None THEN rest
             ELSE IF rest = None THEN Head(xs) ELSE Some(Head(xs)[1] + rest[1])

\* Python truth of an optional amount
TruthyAmount(t) == t # None /\ t[1] # 0

RECURSIVE Concat(_)
Concat(ss) == IF ss = <<>> THEN <<>> ELSE Head(ss) \o Concat(Tail(ss))

\* "\n".join(lines), each line a sequence of pieces
JoinLines(ls) == Join(ls, <<"\n">>)

Column(rows, f(_)) == [k \in 1..Len(rows) |-> f(rows[k])]

Returned(k, frag, pieces) == [exc |-> "", rule |-> k, frag |-> frag, text |-> pieces]
Raised(k, frag, e) == [exc |-> e, rule |-> k, frag |-> frag, text |-> <<>>]

\* the date SQLite's strftime reads from a TEXT value: <<year, month>>, None when invalid
SqlYearMonth(d) ==
    IF d = None THEN None
    ELSE LET s == d[1]
         IN  IF /\ Len(s) = 10 /\ DigitsAt(s, 1, 4) /\ s[5] = "-" /\ DigitsAt(s, 6, 2)
                /\ s[8] = "-" /\ DigitsAt(s, 9, 2)
                /\ NatOf(SubSeq(s, 6, 7)) \in 1..12 /\ NatOf(SubSeq(s, 9, 10)) \in 1..31
             THEN LET y  == NatOf(SubSeq(s, 1, 4))
                      m  == NatOf(SubSeq(s, 6, 7))
                      dd == NatOf(SubSeq(s, 9, 10))
                  IN  IF dd > DaysIn(y, m) THEN Some(<<y, m + 1>>) ELSE Some(<<y, m>>)
             ELSE None

\* x.split(phrase)[-1].strip().split(): the tokens after the last occurrence
TokensAfterFirst(q, phrase) ==
    LET parts == Split(q, phrase) IN Tokens(Strip(parts[2]))
TokensAfter(q, phrase) ==
    LET parts == Split(q, phrase) IN Tokens(Strip(parts[Len(parts)]))

\* lines 186-190
Rule1(R, I, u, q, tie) ==
    LET month == Padded(now[1], 4) \o <<"-">> \o Padded(now[2], 2)
        rows  == SelectSeq(R, LAMBDA r : r.user_id = u /\ r.date # None
                                          /\ OccursAt(Lower(r.date[1]), 1, month))
        total == SumOpt(Column(rows, LAMBDA r : r.total))
    IN  IF TruthyAmount(total)
        THEN Returned(1, None, <<"Total spent this month: ", Money(total[1])>>)
        ELSE Returned(1, None, <<"No receipts for this month.">>)

\* lines 195-211: the body of the loop for the first word of ['from', 'at'] in q
VendorAnswer(R, I, u, q, word) ==
    LET toks == TokensAfter(q, word)
    IN  IF toks = <<>> THEN Raised(2, None, "IndexError")
        ELSE
        LET vendor == toks[1]
            rows   == SelectSeq(R, LAMBDA r : r.user_id = u /\ Like(r.store, vendor))
            total  == SumOpt(Column(SelectSeq(rows, LAMBDA r : TruthyAmount(r.total)),
                                    LAMBDA r : r.total))
            sum    == IF total = None THEN 0 ELSE total[1]
            itemLines ==
                Column(SelectSeq(rows, LAMBDA r : ItemsFor(I, u, r.id) # <<>>),
                       LAMBDA r : <<"Items for ", DateStr(r.date), ": ">> \o
                                  Join(Column(ItemsFor(I, u, r.id),
                                              LAMBDA i : <<StrOf(i.name), " (", Money(i.price), ")">>),
                                       <<", ">>))
        IN  IF rows = <<>>
            THEN Returned(2, Some(vendor), <<"No receipts found for ", StrOf(Title(vendor)), ".">>)
            ELSE IF \E k \in 1..Len(rows) : rows[k].total = None
            THEN Raised(2, Some(vendor), "TypeError")
            ELSE Returned(2, Some(vendor),
                    <<"Total spent at ", StrOf(Title(vendor)), ": ", Money(sum), "\n">>
                    \o JoinLines(Column(rows, LAMBDA r : <<DateStr(r.date), ": ", Money(r.total[1])>>))
                    \o (IF itemLines = <<>> THEN <<>> ELSE <<"\n">> \o JoinLines(itemLines)))

\* lines 192-214
Rule2(R, I, u, q, tie) ==
    IF Contains(q, qFrom) THEN VendorAnswer(R, I, u, q, qFrom)
    ELSE IF Contains(q, qAt) THEN VendorAnswer(R, I, u, q, qAt)
    ELSE Returned(2, None, <<"No matching vendor found.">>)

\* lines 216-227
Rule3(R, I, u, q, tie) ==
    LET rows == OrderByDateDesc(SelectSeq(R, LAMBDA r : r.user_id = u), tie)
    IN  IF rows = <<>> THEN Returned(3, None, <<"No receipts found.">>)
        ELSE LET row == rows[1]
                 its == ItemsFor(I, u, row.id)
             IN  IF its = <<>> THEN Returned(3, None, <<"No items found for your last receipt.">>)
                 ELSE Returned(3, None,
                        <<"Items from your last receipt (", DateStr(row.date), " - ",
                          StrOf(row.store), "):\n">>
                        \o JoinLines(Column(its, LAMBDA i : <<StrOf(i.name), ": ", Money(i.price)>>)))

\* lines 229-245
Rule4(R, I, u, q, tie) ==
    LET toks == TokensAfter(q, qWhatDidIBuyAt)
    IN  IF toks = <<>> THEN Raised(4, None, "IndexError")
        ELSE
        LET vendor == toks[1]
            rows   == OrderByDateDesc(SelectSeq(R, LAMBDA r : r.user_id = u /\ Like(r.store, vendor)), tie)
            all_items ==
                Concat(Column(rows, LAMBDA r :
                    Column(ItemsFor(I, u, r.id),
                           LAMBDA i : <<StrOf(i.name), " (", Money(i.price), ") on ", DateStr(r.date)>>)))
        IN  IF rows = <<>>
            THEN Returned(4, Some(vendor), <<"No receipts found for ", StrOf(Title(vendor)), ".">>)
            ELSE IF all_items = <<>>
            THEN Returned(4, Some(vendor), <<"No items found for ", StrOf(Title(vendor)), ".">>)
            ELSE Returned(4, Some(vendor),
                    <<"Items bought at ", StrOf(Title(vendor)), ":\n">> \o JoinLines(all_items))

\* lines 247-251
Rule5(R, I, u, q, tie) ==
    LET toks == TokensAfter(q, qHowMuchDidISpendOn)
    IN  IF toks = <<>> THEN Raised(5, None, "IndexError")
        ELSE
        LET item  == toks[1]
            rows  == SelectSeq(I, LAMBDA r : r.user_id = u /\ Like(r.name, item))
            total == SumOpt(Column(rows, LAMBDA r : Some(r.price)))
        IN  IF TruthyAmount(total)
            THEN Returned(5, Some(item), <<"Total spent on ", StrOf(Title(item)), ": ", Money(total[1])>>)
            ELSE Returned(5, Some(item), <<"No purchases found for ", StrOf(Title(item)), ".">>)

\* lines 253-265
Rule6(R, I, u, q, tie) ==
    LET its   == SelectSeq(I, LAMBDA r : r.user_id = u)
        owner(i) == SelectSeq(R, LAMBDA r : r.user_id = u /\ r.id = i.receipt_id)
        lines == Column(SelectSeq(its, LAMBDA i : owner(i) # <<>>),
                        LAMBDA i : <<StrOf(i.name), ": ", Money(i.price), " (",
                                     DateStr(owner(i)[1].date), " - ", StrOf(owner(i)[1].store), ")">>)
    IN  IF its = <<>> THEN Returned(6, None, <<"No items found.">>)
        ELSE Returned(6, None, <<"All items:\n">> \o JoinLines(lines))

\* lines 267-282
Rule7(R, I, u, q, tie) ==
    LET named == {k \in 1..12 : Contains(q, MonthNames[k])}
        cat(r) == r.user_id = u /\ (Like(r.store, qGroc) \/ Like(r.store, qSupermarket)
                                        \/ Like(r.store, qFood))
    IN  IF named # {}
        THEN LET month_num == CHOOSE k \in named : \A j \in named : k <= j
                 month == StrOf(Title(MonthNames[month_num]))
                 rows  == SelectSeq(R, LAMBDA r : cat(r) /\ SqlYearMonth(r.date) = Some(<<now[1], month_num>>))
                 total == SumOpt(Column(rows, LAMBDA r : r.total))
             IN  IF TruthyAmount(total)
                 THEN Returned(7, None, <<"Total groceries in ", month, ": ", Money(total[1])>>)
                 ELSE Returned(7, None, <<"No grocery receipts for ", month, ".">>)
        ELSE LET total == SumOpt(Column(SelectSeq(R, cat), LAMBDA r : r.total))
             IN  IF TruthyAmount(total)
                 THEN Returned(7, None, <<"Total groceries: ", Money(total[1])>>)
                 ELSE Returned(7, None, <<"No grocery receipts found.">>)

\* lines 284-287
Rule8AllOwners(R, I, u, q, tie) ==
    LET total == SumOpt(Column(R, LAMBDA r : r.total))
    IN  IF TruthyAmount(total)
        THEN Returned(8, None, <<"Total spent: ", Money(total[1])>>)
        ELSE Returned(8, None, <<"No receipts found.">>)
Rule8(R, I, u, q, tie) ==
    LET total == SumOpt(Column(SelectSeq(R, LAMBDA r : r.user_id = u), LAMBDA r : r.total))
    IN  IF TruthyAmount(total)
        THEN Returned(8, None, <<"Total spent: ", Money(total[1])>>)
        ELSE Returned(8, None, <<"No receipts found.">>)

\* lines 289-295
Rule9(R, I, u, q, tie) ==
    LET rows == OrderByDateDesc(SelectSeq(R, LAMBDA r : r.user_id = u), tie)
    IN  IF rows = <<>> THEN Returned(9, None, <<"No receipts found.">>)
        ELSE IF \E k \in 1..Len(rows) : rows[k].total = None THEN Raised(9, None, "TypeError")
        ELSE Returned(9, None,
                JoinLines(Column(rows, LAMBDA r :
                    <<DateStr(r.date), " - ", StrOf(r.store), ": ", Money(r.total[1])>>)))

\* lines 296-297
Rule10(R, I, u, q, tie) ==
    Returned(10, None, <<"Sorry, I couldn't understand your question. Try asking about totals, vendors, items, or months.">>)

\* lines 182-299: the if/elif chain over q = query.lower()
ChainTotalAfterList(R, I, u, q, tie) ==
    IF Contains(q, qThisMonth) \/ Contains(q, qCurrentMonth) THEN Rule1(R, I, u, q, tie)
    ELSE IF Contains(q, qFrom) \/ Contains(q, qAt) THEN Rule2(R, I, u, q, tie)
    ELSE IF Contains(q, qLastReceipt) \/ Contains(q, qLatestReceipt) THEN Rule3(R, I, u, q, tie)
    ELSE IF Contains(q, qWhatDidIBuyAt) THEN Rule4(R, I, u, q, tie)
    ELSE IF Contains(q, qHowMuchDidISpendOn) THEN Rule5(R, I, u, q, tie)
    ELSE IF Contains(q, qListAllItems) \/ Contains(q, qShowAllItems) THEN Rule6(R, I, u, q, tie)
    ELSE IF Contains(q, qGrocer) \/ Contains(q, qSupermarket) \/ Contains(q, qFood)
         THEN Rule7(R, I, u, q, tie)
    ELSE IF Contains(q, qList) \/ Contains(q, qShow) THEN Rule9(R, I, u, q, tie)
    ELSE IF Contains(q, qTotal) \/ Contains(q, qAll) \/ Contains(q, qEverything)
         THEN Rule8(R, I, u, q, tie)
    ELSE Rule10(R, I, u, q, tie)
Chain(R, I, u, q, tie) ==
    IF Contains(q, qThisMonth) \/ Contains(q, qCurrentMonth) THEN Rule1(R, I, u, q, tie)
    ELSE IF Contains(q, qFrom) \/ Contains(q, qAt) THEN Rule2(R, I, u, q, tie)
    ELSE IF Contains(q, qLastReceipt) \/ Contains(q, qLatestReceipt) THEN Rule3(R, I, u, q, tie)
    ELSE IF Contains(q, qWhatDidIBuyAt) THEN Rule4(R, I, u, q, tie)
    ELSE IF Contains(q, qHowMuchDidISpendOn) THEN Rule5(R, I, u, q, tie)
    ELSE IF Contains(q, qListAllItems) \/ Contains(q, qShowAllItems) THEN Rule6(R, I, u, q, tie)
    ELSE IF Contains(q, qGrocer) \/ Contains(q, qSupermarket) \/ Contains(q, qFood)
         THEN Rule7(R, I, u, q, tie)
    ELSE IF Contains(q, qTotal) \/ Contains(q, qAll) \/ Contains(q, qEverything)
         THEN Rule8(R, I, u, q, tie)
    ELSE IF Contains(q, qList) \/ Contains(q, qShow) THEN Rule9(R, I, u, q, tie)
    ELSE Rule10(R, I, u, q, tie)

answer_query(R, I, u, query, tie) == Chain(R, I, u, Lower(query), tie)

-----------------------------------------------------------------------------
(* The receipts that are uploaded, the questions that are asked.           *)

MaxInserts == 2
MaxPhrases == 2

Item(name, price) == [name |-> name, price |-> price]
Receipt(store, date, total, its) == [store |-> store, date |-> date, total |-> total, items |-> its]

Uploads == <<
    Receipt(<<"W","a","l","m","a","r","t">>, Some(<<"2","0","2","6","-","1","0","-","1","5">>), Some(1250),
            <<Item(<<"M","i","l","k">>, 350), Item(<<"B","r","e","a","d">>, 200)>>),
    Receipt(<<"F","o","o","d"," ","M","a","r","t">>, Some(<<"1","1","/","1","5","/","2","0","2","6">>), Some(0), <<>>),
    Receipt(<<"W","a","l","m","a","r","t">>, None, None, <<Item(<<"M","i","l","k">>, 350)>>),
    Receipt(<<"W","h","o","l","e"," ","F","o","o","d","s">>, Some(<<"2","0","2","6","-","1","1","-","0","3">>), Some(899), <<>>) >>

Phrases == <<
    <<"H","o","w"," ","m","u","c","h"," ","d","i","d"," ","I"," ","s","p","e","n","d"," ","t","h","i","s"," ","m","o","n","t","h","?">>,
    <<"f","r","o","m">>,
    <<"a","t">>,
    <<"l","a","s","t"," ","r","e","c","e","i","p","t">>,
    <<"l","a","t","e","s","t"," ","r","e","c","e","i","p","t">>,
    <<"w","h","a","t"," ","d","i","d"," ","i"," ","b","u","y"," ","a","t">>,
    <<"h","o","w"," ","m","u","c","h"," ","d","i","d"," ","i"," ","s","p","e","n","d"," ","o","n">>,
    <<"l","i","s","t"," ","a","l","l"," ","i","t","e","m","s">>,
    <<"f","o","o","d">>,
    <<"n","o","v","e","m","b","e","r">>,
    <<"T","o","t","a","l">>,
    <<"s","h","o","w">>,
    <<"w","a","l","m","a","r","t">>,
    <<"m","i","l","k">>,
    <<"h","e","l","l","o">> >>

\* a question: up to MaxPhrases phrases with a blank between them
Questions == {Join([i \in 1..Len(c) |-> Phrases[c[i]]], <<" ">>) :
                c \in SeqsUpTo(1..Len(Phrases), MaxPhrases)}

\* the questions asked while receipts come and go
FewQuestions == {Phrases[1], Phrases[3] \o <<" ">> \o Phrases[13], Phrases[4],
                 Phrases[7] \o <<" ">> \o Phrases[14], Phrases[8],
                 Phrases[9] \o <<" ">> \o Phrases[10], Phrases[12] \o <<" ">> \o Phrases[11],
                 Phrases[12], Phrases[15]}

\* insert_receipt (lines 132-142) on a database [R, I, nr, ni]
insert_receipt(db, u, rc) ==
    [R  |-> InsertReceiptRow(db.R, db.nr, u, rc.store, rc.date, rc.total),
     I  |-> InsertItemRows(db.I, db.ni, u, db.nr, rc.items),
     nr |-> db.nr + 1,
     ni |-> db.ni + Len(rc.items)]

\* delete_receipt (lines 160-166)
delete_receipt(db, u, rid) ==
    [R |-> DeleteReceipts(db.R, u, rid), I |-> DeleteItems(db.I, u, rid),
     nr |-> db.nr, ni |-> db.ni]

EmptyDB == [R |-> <<>>, I |-> <<>>, nr |-> 1, ni |-> 1]

RECURSIVE After(_)
\* the database after the uploads h = <<<<owner, upload>>, ...>>
After(h) ==
    IF h = <<>> THEN EmptyDB
    ELSE insert_receipt(After(SubSeq(h, 1, Len(h) - 1)), h[Len(h)][1], Uploads[h[Len(h)][2]])

\* databases the questions of SpecAsk are asked of
Stored == {After(h) : h \in {
    <<>>,
    << <<"u1", 3>> >>,
    << <<"u1", 2>>, <<"u2", 1>> >>,
    << <<"u2", 4>>, <<"u1", 1>>, <<"u1", 4>> >>,
    << <<"u1", 1>>, <<"u2", 3>>, <<"u1", 1>> >> }}

DB == [R |-> receipts, I |-> items, nr |-> nextReceiptId, ni |-> nextItemId]
RefDB == [R |-> refReceipts, I |-> refItems, nr |-> refNextReceiptId, ni |-> refNextItemId]
SetDB(db) == /\ receipts' = db.R /\ items' = db.I
             /\ nextReceiptId' = db.nr /\ nextItemId' = db.ni
SetRefDB(db) == /\ refReceipts' = db.R /\ refItems' = db.I
                /\ refNextReceiptId' = db.nr /\ refNextItemId' = db.ni

\* The reference run is the run of the observed owner alone: each of its
\* operations is repeated there, on the receipt that corresponds by idmap.
Observer == "u1"
RefId(rid) == IF rid \in DOMAIN idmap THEN idmap[rid] ELSE 0

-----------------------------------------------------------------------------
InitDB ==
    /\ receipts = <<>> /\ items = <<>>
    /\ nextReceiptId = 1 /\ nextItemId = 1
    /\ refReceipts = <<>> /\ refItems = <<>>
    /\ refNextReceiptId = 1 /\ refNextItemId = 1
    /\ idmap = <<>>
    /\ now = <<2026, 11>>
    /\ res = [op |-> "none"] /\ refRes = [op |-> "none"]

refvars == <<refReceipts, refItems, refNextReceiptId, refNextItemId>>
dbvars == <<receipts, items, nextReceiptId, nextItemId>>

\* the parser applied to every text
InitParse == text \in Texts /\ parsed = None /\ question = <<>> /\ InitDB
Parse == /\ parsed = None
         /\ parsed' = Some(parse_receipt_text(text))
         /\ UNCHANGED <<text, question, dbvars, refvars, idmap, now, res, refRes>>
NextParse == Parse
SpecParse == InitParse /\ [][NextParse]_vars

\* answer_query applied to every question, for the owner u1 of a stored database
InitAsk ==
    /\ text = <<>> /\ parsed = None
    /\ question \in Questions
    /\ \E db \in Stored :
          /\ receipts = db.R /\ items = db.I
          /\ nextReceiptId = db.nr /\ nextItemId = db.ni
    /\ refReceipts = <<>> /\ refItems = <<>>
    /\ refNextReceiptId = 1 /\ refNextItemId = 1
    /\ idmap = <<>>
    /\ now = <<2026, 11>>
    /\ res = [op |-> "none"] /\ refRes = [op |-> "none"]
AskStored ==
    /\ res.op = "none"
    /\ \E tie \in BOOLEAN :
          res' = [op |-> "ask", user |-> Observer, q |-> question,
                  val |-> answer_query(receipts, items, Observer, question, tie)]
    /\ UNCHANGED <<text, parsed, question, dbvars, refvars, idmap, now, refRes>>
NextAsk == AskStored
SpecAsk == InitAsk /\ [][NextAsk]_vars

\* the sessions of all owners on the one database
Init == text = <<>> /\ parsed = None /\ question = <<>> /\ InitDB

\* A query changes nothing but res, so whatever can follow it can follow the
\* state it was asked in.  Every operation is therefore taken from a state
\* that an insert or a delete (or the start) left: every database state, and
\* every result of every query of it, stays reachable, and the results of
\* queries do not multiply the histories.
Settled == res.op \in {"none", "insert", "delete"}

Insert(u, rc) ==
    /\ Settled
    /\ nextReceiptId <= MaxInserts
    /\ SetDB(insert_receipt(DB, u, rc))
    /\ IF u = Observer
       THEN /\ SetRefDB(insert_receipt(RefDB, u, rc))
            /\ idmap' = idmap @@ (nextReceiptId :> refNextReceiptId)
       ELSE UNCHANGED <<refvars, idmap>>
    /\ res' = [op |-> "insert"] /\ refRes' = [op |-> "none"]
    /\ UNCHANGED <<text, parsed, question, now>>

Delete(u, rid) ==
    /\ Settled
    /\ SetDB(delete_receipt(DB, u, rid))
    /\ IF u = Observer
       THEN SetRefDB(delete_receipt(RefDB, u, RefId(rid)))
       ELSE UNCHANGED refvars
    /\ res' = [op |-> "delete"] /\ refRes' = [op |-> "none"]
    /\ UNCHANGED <<text, parsed, question, idmap, now>>

GetReceipts(u, tie) ==
    /\ Settled
    /\ res' = [op |-> "get_receipts", user |-> u, val |-> get_receipts(receipts, u, tie)]
    /\ refRes' = IF u = Observer
                 THEN [op |-> "get_receipts", user |-> u, val |-> get_receipts(refReceipts, u, tie)]
                 ELSE [op |-> "none"]
    /\ UNCHANGED <<text, parsed, question, dbvars, refvars, idmap, now>>

GetItems(u, rid) ==
    /\ Settled
    /\ res' = [op |-> "get_items", user |-> u, rid |-> rid,
               val |-> get_items_for_receipt(items, u, rid)]
    /\ refRes' = IF u = Observer
                 THEN [op |-> "get_items", user |-> u, rid |-> RefId(rid),
                       val |-> get_items_for_receipt(refItems, u, RefId(rid))]
                 ELSE [op |-> "none"]
    /\ UNCHANGED <<text, parsed, question, dbvars, refvars, idmap, now>>

Ask(u, q, tie) ==
    /\ Settled
    /\ res' = [op |-> "ask", user |-> u, q |-> q,
               val |-> answer_query(receipts, items, u, q, tie)]
    /\ refRes' = IF u = Observer
                 THEN [op |-> "ask", user |-> u, q |-> q,
                       val |-> answer_query(refReceipts, refItems, u, q, tie)]
                 ELSE [op |-> "none"]
    /\ UNCHANGED <<text, parsed, question, dbvars, refvars, idmap, now>>

Next ==
    \/ \E u \in Users, k \in 1..Len(Uploads) : Insert(u, Uploads[k])
    \/ \E u \in Users, rid \in 1..MaxInserts : Delete(u, rid)
    \/ \E u \in Users, tie \in BOOLEAN : GetReceipts(u, tie)
    \/ \E u \in Users, rid \in 1..MaxInserts : GetItems(u, rid)
    \/ \E u \in Users, q \in FewQuestions, tie \in BOOLEAN : Ask(u, q, tie)

Spec == Init /\ [][Next]_vars

-----------------------------------------------------------------------------
(* The properties checked of the parser (under SpecParse).                 *)

AllBlank(t) == \A i \in 1..Len(t) : t[i] \in WS
Defaults == [store |-> Unknown, date |-> None, total |-> None, items |-> <<>>]

\* C3: parse_receipt_text returns a record for every text, its store is never
\* the empty string, and a text without a non-blank line gives store
\* "Unknown", no date, no total and no items.
C3_StoreNeverEmpty ==
    parsed # None =>
        /\ parsed[1].store # <<>>
        /\ AllBlank(text) => parsed[1] = Defaults
C3_Witness == parsed # None /\ text # <<>> /\ AllBlank(text) /\ parsed[1].store = Unknown

\* C4: when some line matches the total regex, the total returned is the value
\* of the numeric run of the bottom-most such line (absent when the run is no
\* number), whatever bare $<number> lines the text holds and whatever that
\* value is.
C4_KeywordLineDecidesTotal ==
    parsed # None =>
        LET ls == Lines(text)
            i  == LastIdx(ls, TotalMatches)
        IN  i # 0 => parsed[1].total = FloatOf(StripCommas(TotalGroup(ls[i])))

\* the j-th smallest element of a set of indices
NthOf(S, j) == CHOOSE i \in S : Cardinality({x \in S : x < i}) = j - 1
\* the item reads as a name at the start of the line and a price with two
\* fractional digits after it, and the line holds no total/amount keyword
ComesFrom(it, l) ==
    /\ ~HasKeyword(l)
    /\ it.name # <<>> /\ it.name[1] \notin WS /\ it.name[Len(it.name)] \notin WS
    /\ it.price # None
    /\ \E k \in 1..Len(l) :
          /\ it.name = Strip(SubSeq(l, 1, k))
          /\ \E a \in (k + 1)..Len(l), b \in (k + 1)..Len(l) :
                /\ b >= a + 3 /\ l[b - 2] = "."
                /\ it.price = FloatOf(SubSeq(l, a, b))

\* C5: the items are an order-preserving selection of the normalized lines, at
\* most one item per line, none from a line with a total/amount keyword, each
\* with a non-empty trimmed name and a price.
C5_ItemsAreOrderedSelection ==
    parsed # None =>
        LET ls  == Lines(text)
            its == parsed[1].items
        IN  \E S \in SUBSET (1..Len(ls)) :
                /\ Cardinality(S) = Len(its)
                /\ \A j \in 1..Len(its) : ComesFrom(its[j], ls[NthOf(S, j)])
C5_Witness ==
    /\ parsed # None /\ Len(parsed[1].items) >= 2
    /\ \E i \in 1..Len(Lines(text)) :
          HasKeyword(Lines(text)[i]) /\ PriceMatches(Lines(text)[i])

-----------------------------------------------------------------------------
(* The properties checked of answer_query (under SpecAsk).                 *)

Asked == res.op = "ask"
HasPiece(ps, p) == \E i \in 1..Len(ps) : ps[i] = p

\* C1: answer_query returns a non-empty text for every question and every
\* stored database: it raises nothing and the answer is not empty.
C1_AlwaysAnswersWithText ==
    Asked => /\ res.val.exc = ""
             /\ \E i \in 1..Len(res.val.text) : res.val.text[i] # ""

\* the keyword predicates of the ten intents, in their order
Predicate(k, q) ==
    CASE k = 1 -> Contains(q, qThisMonth) \/ Contains(q, qCurrentMonth)
      [] k = 2 -> Contains(q, qFrom) \/ Contains(q, qAt)
      [] k = 3 -> Contains(q, qLastReceipt) \/ Contains(q, qLatestReceipt)
      [] k = 4 -> Contains(q, qWhatDidIBuyAt)
      [] k = 5 -> Contains(q, qHowMuchDidISpendOn)
      [] k = 6 -> Contains(q, qListAllItems) \/ Contains(q, qShowAllItems)
      [] k = 7 -> Contains(q, qGrocer) \/ Contains(q, qSupermarket) \/ Contains(q, qFood)
      [] k = 8 -> Contains(q, qTotal) \/ Contains(q, qAll) \/ Contains(q, qEverything)
      [] k = 9 -> Contains(q, qList) \/ Contains(q, qShow)
      [] k = 10 -> TRUE
Handler(k, R, I, u, q, tie) ==
    CASE k = 1 -> Rule1(R, I, u, q, tie)
      [] k = 2 -> Rule2(R, I, u, q, tie)
      [] k = 3 -> Rule3(R, I, u, q, tie)
      [] k = 4 -> Rule4(R, I, u, q, tie)
      [] k = 5 -> Rule5(R, I, u, q, tie)
      [] k = 6 -> Rule6(R, I, u, q, tie)
      [] k = 7 -> Rule7(R, I, u, q, tie)
      [] k = 8 -> Rule8(R, I, u, q, tie)
      [] k = 9 -> Rule9(R, I, u, q, tie)
      [] k = 10 -> Rule10(R, I, u, q, tie)
FirstMatching(q) == CHOOSE k \in 1..10 : Predicate(k, q) /\ \A j \in 1..(k - 1) : ~Predicate(j, q)
TotalAndList(q) ==
    /\ Contains(q, qTotal) /\ (Contains(q, qList) \/ Contains(q, qShow))
    /\ \A j \in 1..7 : ~Predicate(j, q)

\* C2: the answer is the one the handler of the lowest-numbered matching rule
\* gives, whole and nothing else; a question with 'total' and 'list'/'show'
\* that matches no rule 1-7 is answered with the grand total.
C2_FirstMatchingRuleAnswers ==
    Asked =>
        LET q == Lower(res.q)
            k == FirstMatching(q)
        IN  /\ res.val.rule = k
            /\ \E tie \in BOOLEAN : res.val = Handler(k, receipts, items, res.user, q, tie)
            /\ TotalAndList(q) =>
                  /\ res.val.exc = ""
                  /\ \/ res.val.text = <<"No receipts found.">>
                     \/ Len(res.val.text) = 2 /\ res.val.text[1] = "Total spent: "
C2_Witness ==
    /\ Asked /\ TotalAndList(Lower(res.q)) /\ res.val.rule = 8
    /\ res.val.text[1] = "Total spent: "
    /\ \E i \in 1..Len(receipts) : receipts[i].user_id = res.user /\ receipts[i].total # None

\* the trigger word the vendor rule splits by
Trigger(q) == IF Contains(q, qFrom) THEN qFrom ELSE qAt
\* tok is the first blank-delimited token of s after position p
FollowingToken(s, p, tok) ==
    \E a \in (p + 1)..Len(s), b \in (p + 1)..Len(s) :
        /\ a <= b
        /\ \A m \in (p + 1)..(a - 1) : s[m] \in WS
        /\ \A m \in a..b : s[m] \notin WS
        /\ b = Len(s) \/ s[b + 1] \in WS
        /\ tok = SubSeq(s, a, b)
LastOcc(s, w) == CHOOSE i \in 1..Len(s) :
                    OccursAt(s, i, w) /\ \A j \in (i + 1)..Len(s) : ~OccursAt(s, j, w)
VendorRuleAnswered == Asked /\ res.val.rule = 2

\* C6 as stated: the vendor fragment is the token that follows the first
\* occurrence of the trigger word.
C6_TokenAfterFirstOccurrence ==
    VendorRuleAnswered /\ res.val.frag # None =>
        LET q == Lower(res.q)
            w == Trigger(q)
        IN  FollowingToken(q, FirstOcc(q, w) + Len(w) - 1, res.val.frag[1])

\* C6 amended: the vendor fragment is the token that follows the last
\* occurrence of the trigger word ('from' when the question holds it, else
\* 'at'), and the stores are filtered by it; when only blanks follow that
\* occurrence there is no fragment and answer_query raises IndexError.
C6_TokenAfterLastOccurrence ==
    VendorRuleAnswered =>
        LET q == Lower(res.q)
            w == Trigger(q)
            p == LastOcc(q, w) + Len(w) - 1
            v == res.val
        IN  IF \A m \in (p + 1)..Len(q) : q[m] \in WS
            THEN v.frag = None /\ v.exc = "IndexError"
            ELSE /\ v.frag # None
                 /\ FollowingToken(q, p, v.frag[1])
                 /\ v.exc = "" =>
                       /\ v.text[2] = StrOf(Title(v.frag[1]))
                       /\ (v.text[1] = "No receipts found for ") =
                             (\A i \in 1..Len(receipts) :
                                 receipts[i].user_id = res.user =>
                                     ~Contains(Lower(receipts[i].store), v.frag[1]))
C6_Witness ==
    /\ VendorRuleAnswered /\ res.val.frag # None /\ res.val.exc = ""
    /\ res.val.text[1] = "Total spent at "
    /\ LET q == Lower(res.q)
           w == Trigger(q)
       IN  /\ FirstOcc(q, w) # LastOcc(q, w)
           /\ ~FollowingToken(q, FirstOcc(q, w) + Len(w) - 1, res.val.frag[1])

\* the receipts of the owner that the aggregating intent of the answer sums
Summed(v) ==
    LET own == SelectSeq(receipts, LAMBDA r : r.user_id = res.user)
    IN  CASE v.rule = 2 -> SelectSeq(own, LAMBDA r : Contains(Lower(r.store), v.frag[1]))
          [] OTHER -> own
NoDataMessages ==
    {"No receipts for this month.", "No receipts found for ", "No purchases found for ",
     "No grocery receipts for ", "No grocery receipts found.", "No receipts found."}

ThisMonth == Padded(now[1], 4) \o <<"-">> \o Padded(now[2], 2)

\* C7: an aggregating intent whose sum is zero or absent answers with its
\* 'no data found' message and never with the amount $0.00; the month question
\* with no record of the current month answers "No receipts for this month.".
C7_ZeroSumIsNoData ==
    Asked /\ res.val.rule \in {1, 2, 5, 7, 8} /\ res.val.exc = "" =>
        /\ (res.val.rule = 1 /\ \A i \in 1..Len(receipts) :
                                   receipts[i].user_id = res.user /\ receipts[i].date # None
                                       => ~OccursAt(receipts[i].date[1], 1, ThisMonth))
              => res.val.text = <<"No receipts for this month.">>
        /\ (res.val.rule # 5 /\ \A i \in 1..Len(Summed(res.val)) :
                                   ~TruthyAmount(Summed(res.val)[i].total))
              => /\ res.val.text[1] \in NoDataMessages
                 /\ ~HasPiece(res.val.text, "$0.00")

\* C10: every one of the ten rules answers some question; some question with
\* 'what did i buy at' is answered by rule 4, some question with 'latest
\* receipt' by rule 3.
RuleOf(q) == answer_query(receipts, items, Observer, q, FALSE).rule
C10_EveryRuleAnswers ==
    /\ \A k \in 1..10 : \E q \in Questions : RuleOf(q) = k
    /\ \E q \in Questions : Contains(Lower(q), qWhatDidIBuyAt) /\ RuleOf(q) = 4
    /\ \E q \in Questions : Contains(Lower(q), qLatestReceipt) /\ RuleOf(q) = 3

-----------------------------------------------------------------------------
(* The properties checked of the storage operations (under Spec).          *)

NoOrphans ==
    \A i \in 1..Len(items) : \E j \in 1..Len(receipts) :
        receipts[j].id = items[i].receipt_id /\ receipts[j].user_id = items[i].user_id

\* what a step delete_receipt(u, rid) does to the two tables
DeleteEffect(u, rid) ==
    LET mine(r) == r.user_id = u /\ r.id = rid
        its(r)  == r.user_id = u /\ r.receipt_id = rid
        after   == [R |-> receipts', I |-> items', nr |-> nextReceiptId', ni |-> nextItemId']
    IN  /\ receipts' = SelectSeq(receipts, LAMBDA r : ~mine(r))
        /\ items' = SelectSeq(items, LAMBDA r : ~its(r))
        /\ Len(receipts) - Len(receipts') <= 1
        /\ (\A j \in 1..Len(receipts) : ~mine(receipts[j]))
              => receipts' = receipts /\ items' = items
        /\ delete_receipt(after, u, rid) = after

\* C8: delete_receipt removes the owner's receipt of that id with its items and
\* nothing else, changes nothing when the owner has no such receipt, and
\* deleting again changes nothing; no item is ever left without its receipt.
C8_DeleteRemovesOneReceipt ==
    /\ []NoOrphans
    /\ [][\A u \in Users, rid \in 1..MaxInserts : Delete(u, rid) => DeleteEffect(u, rid)]_vars
C8_Witness ==
    /\ res.op = "delete" /\ Len(receipts) < nextReceiptId - 1 /\ Len(items) < nextItemId - 1
    /\ \E i \in 1..Len(receipts), j \in 1..Len(items) : items[j].receipt_id = receipts[i].id
    /\ \E i \in 1..Len(receipts) : receipts[i].user_id # Observer

Queried == res.op \in {"get_receipts", "get_items", "ask"} /\ res.user = Observer

\* C9 as stated: what the observed owner gets is what it gets in the run
\* without the other owners.
C9_SameAsAlone == Queried => res.val = refRes.val

\* the rows get_receipts returned, with the ids the reference run gave them
Renumbered(rows) ==
    [k \in 1..Len(rows) |-> <<idmap[rows[k][1]], rows[k][2], rows[k][3], rows[k][4]>>]
OthersUntouched(u) ==
    /\ SelectSeq(receipts', LAMBDA r : r.user_id # u) = SelectSeq(receipts, LAMBDA r : r.user_id # u)
    /\ SelectSeq(items', LAMBDA r : r.user_id # u) = SelectSeq(items, LAMBDA r : r.user_id # u)

\* C9 amended: up to the numbering of the receipt ids, which come from one
\* counter shared by all owners, what the observed owner gets from
\* get_receipts, get_items_for_receipt and answer_query is what it gets in the
\* run without the other owners, and no operation of an owner changes a row
\* of another owner.
C9_IsolatedUpToIds ==
    /\ [](Queried =>
            IF res.op = "get_receipts" THEN Renumbered(res.val) = refRes.val
            ELSE res.val = refRes.val)
    /\ [][\A u \in Users :
            ((\E k \in 1..Len(Uploads) : Insert(u, Uploads[k]))
                \/ (\E rid \in 1..MaxInserts : Delete(u, rid)))
            => OthersUntouched(u)]_vars
C9_Witness ==
    /\ Queried /\ res.op = "ask" /\ res.val.rule = 8 /\ res.val.text[1] = "Total spent: "
    /\ \E i \in 1..Len(receipts) : receipts[i].user_id # Observer /\ TruthyAmount(receipts[i].total)
    /\ \E rid \in DOMAIN idmap : idmap[rid] # rid

=============================================================================
